---- MODULE Spec2Model ----
(***************************************************************************)
(* A model of the SooperLooper engine core (src/src/engine.cpp): the RT    *)
(* event queue and its producers (push_command_event, push_control_event), *)
(* the real-time dispatch loop (Engine::process), the instance registry    *)
(* (add_loop, remove_loop), the non-RT worker (Engine::mainloop), the      *)
(* admin producer (push_nonrt_event), quit(), and the engine's life cycle  *)
(* (the constructor, initialize, cleanup and the destructor).              *)
(*                                                                         *)
(* The RingBuffer template, the Looper and the EventGenerator are not part *)
(* of engine.cpp.  The ring buffer is modelled as the usual                *)
(* single-producer/single-consumer ring with a read and a write cursor and *)
(* one slot kept free; a Looper is modelled by the calls made on it; the   *)
(* EventGenerator by the fragment offset it stamps on a new event.         *)
(***************************************************************************)
EXTENDS Integers, Sequences, FiniteSets, TLC

\* ------------------------------------------------------------- bounds ----
\* Slots of each ring buffer (MAX_EVENTS in the code); QSize - 1 are usable.
QSize == 3
\* Largest registry the model builds (the code has no limit).
MaxInst == 2
\* Largest nframes handed to process; fragment offsets range over 0..MaxFrames.
MaxFrames == 2

\* Engine::Engine: _def_channel_cnt = 2
DefChannelCnt == 2

\* The integer types remove_loop's index goes through wrap around: int and
\* unsigned int modulo UIntModulus, size_t modulo SizeModulus.  The build has
\* 2^32 and 2^64; TLC's integers are 32-bit, so the model scales both words
\* down, keeping size_t the wider one and every registry size far below both.
UIntModulus == 2^16
SizeModulus == 2^24

VARIABLES
  ok,             \* _ok
  instances,      \* _instances: the Loopers, each as constructed (index, chans)
  instance_lock,  \* holder of _instance_lock: "free", "rt" or "worker"
  eq_buf,         \* slots of _event_queue
  eq_w,           \* write cursor of _event_queue
  eq_r,           \* read cursor of _event_queue
  rt,             \* locals of Engine::process
  calls,          \* run / do_event calls made on the Loopers in the current process call
  evlog,          \* one record per event read in the current process call
  prod,           \* locals of push_command_event / push_control_event
  nq,             \* _nonrt_event_queue, oldest first
  wk,             \* locals of Engine::mainloop, add_loop, remove_loop
  el_lock,        \* holder of _event_loop_lock: "free", "worker", "quit" or "pusher"
  notes,          \* LoopAdded / LoopRemoved emissions of the current dispatch
  osc,            \* ControlOSC completions of the current dispatch
  qt,             \* position of a quit() call
  ap,             \* locals of push_nonrt_event
  own             \* _osc, _event_queue, _event_generator and the calls of
                  \* initialize, cleanup and the destructor

queueVars == <<eq_buf, eq_w, eq_r>>
rtVars    == <<rt, calls, evlog>>
regVars   == <<instances, instance_lock>>
workVars  == <<ok, nq, wk, el_lock, notes, osc, qt, ap>>
vars == <<ok, instances, instance_lock, eq_buf, eq_w, eq_r, rt, calls, evlog,
          prod, nq, wk, el_lock, notes, osc, qt, ap, own>>

\* ------------------------------------------------------ value domains ----
Slots     == 0 .. (QSize - 1)
\* Fragment offsets an event can carry: in range, and MaxFrames, out of range
\* for every nframes.
FragVals  == 0 .. MaxFrames
\* Event::Instance values: -1 (all), -2 (never a position) and the positions
\* of the largest registry (no positions of a smaller one).
InstVals  == (-2) .. (MaxInst - 1)
\* The nframes of a process call.
FrameCnts == { MaxFrames - 1, MaxFrames }

\* A slot of the RT queue.  st: "free" (not holding a queued event),
\* "created" (holds createEvent()'s value, Type/Command/Instance not yet
\* assigned) or "full".  reads counts the times process read the slot's event.
FreeSlot == [st |-> "free", frag |-> 0, inst |-> -1, reads |-> 0]
FullEvent(f, i) == [st |-> "full", frag |-> f, inst |-> i, reads |-> 0]

\* ---------------------------------------------------------- RingBuffer ---
\* RingBuffer<T>::read_space
read_space(w, r) == (w - r + QSize) % QSize

\* RingBuffer<T>::write_space: one slot always stays free
write_space(w, r) == (r - w - 1 + QSize) % QSize

\* RingBuffer<T>::get_read_vector: the readable region as two spans,
\* buf[0] = slot r (len[0] slots), buf[1] = slot 0 (len[1] slots)
get_read_vector(w, r) ==
  LET free_cnt == read_space(w, r)
      cnt2     == r + free_cnt
  IN  IF cnt2 > QSize
        THEN [start |-> r, len0 |-> QSize - r, len1 |-> cnt2 % QSize]
        ELSE [start |-> r, len0 |-> free_cnt, len1 |-> 0]

\* RingBuffer<T>::get_write_vector: the writable region, buf[0] = slot w
get_write_vector(w, r) ==
  LET free_cnt == write_space(w, r)
      cnt2     == w + free_cnt
  IN  IF cnt2 > QSize
        THEN [start |-> w, len0 |-> QSize - w, len1 |-> cnt2 % QSize]
        ELSE [start |-> w, len0 |-> free_cnt, len1 |-> 0]

\* RingBuffer<T>::increment_read_ptr / increment_write_ptr
increment_ptr(p, cnt) == (p + cnt) % QSize

\* The slots the read cursor passes when it advances by cnt from r.
PassedSlots(r, cnt) == { (r + k) % QSize : k \in 0 .. (cnt - 1) }

\* The queued events, oldest first (the slots from r up to w).
QueueSeq(buf, w, r) == [k \in 1 .. read_space(w, r) |-> buf[(r + k - 1) % QSize]]

\* ------------------------------------------------------------- Looper ----
RunCall(p, s, c)  == [op |-> "run", pos |-> p, start |-> s, count |-> c, ev |-> 0]
DoEventCall(p, k) == [op |-> "do_event", pos |-> p, start |-> 0, count |-> 0, ev |-> k]

\* ------------------------------------------------------ Engine::process --
RtIdle == [pc |-> "idle", nframes |-> 0, locked |-> FALSE, contended |-> FALSE,
           fragUpdates |-> 0,
           vec |-> [start |-> 0, len0 |-> 0, len1 |-> 0],
           num |-> 0, n |-> 0, vecn |-> 0, usedframes |-> 0, cycles |-> 0,
           passed |-> <<>>, ready |-> TRUE, before |-> <<>>,
           prevContended |-> FALSE]

\* ready: _ok when process was called.  before: the queued events when
\* process was called.  prevContended: the call before this one was contended.
\* cycles: 1 once process has been called.  passed: the slots' contents the
\* read cursor went over in increment_read_ptr.  contended: another thread
\* held _instance_lock when process was called.  fragUpdates: the calls of
\* updateFragmentTime in this process call.
\* A slip in the lock attempt: its result is not looked at.
TryLockResult_Ignored(holder) == TRUE

\* process, line 189: TentativeLockMonitor lm (_instance_lock): a trylock.
TryLockResult(holder) == holder = "free"

ProcessCall(nf) ==
  /\ rt.pc = "idle"
  /\ rt' = [RtIdle EXCEPT !.pc = "getvec", !.nframes = nf,
                          !.locked = TryLockResult(instance_lock),
                          !.contended = (instance_lock # "free"),
                          !.cycles = 1, !.ready = ok,
                          !.before = QueueSeq(eq_buf, eq_w, eq_r),
                          !.prevContended = rt.contended]
  /\ instance_lock' = IF TryLockResult(instance_lock) THEN "rt" ELSE instance_lock
  /\ calls' = <<>>
  /\ evlog' = <<>>
  /\ UNCHANGED <<instances, queueVars, prod, workVars, own>>

\* process, lines 196-199: get_read_vector, then updateFragmentTime.
ProcessGetReadVector ==
  /\ rt.pc = "getvec"
  /\ rt' = [rt EXCEPT !.pc = "check",
                      !.vec = get_read_vector(eq_w, eq_r),
                      !.fragUpdates = @ + 1]
  /\ UNCHANGED <<regVars, queueVars, calls, evlog, prod, workVars, own>>

\* A slip in the contended path: the read cursor is advanced all the same.
ProcessAlreadyLocked_Consumes ==
  /\ rt.pc = "check"
  /\ ~rt.locked
  /\ rt' = [rt EXCEPT !.pc = "ret"]
  /\ eq_r' = increment_ptr(eq_r, rt.vec.len0 + rt.vec.len1)
  /\ UNCHANGED <<regVars, eq_buf, eq_w, calls, evlog, prod, workVars, own>>

\* process, lines 203-206: the lock is held by another thread.
ProcessAlreadyLocked ==
  /\ rt.pc = "check"
  /\ ~rt.locked
  /\ rt' = [rt EXCEPT !.pc = "ret"]
  /\ UNCHANGED <<regVars, queueVars, calls, evlog, prod, workVars, own>>

\* process, lines 210-217: the locals of the event loop, num > 0.
ProcessEventsBegin ==
  /\ rt.pc = "check"
  /\ rt.locked
  /\ rt.vec.len0 > 0
  /\ rt' = [rt EXCEPT !.pc = "loop", !.usedframes = 0, !.num = rt.vec.len0,
                      !.n = 0, !.vecn = 0]
  /\ UNCHANGED <<regVars, queueVars, calls, evlog, prod, workVars, own>>

\* process, lines 267-273: no events, run every instance for the whole buffer.
NoEventCalls(nf, ninst) == [p \in 1 .. ninst |-> RunCall(p - 1, 0, nf)]

ProcessNoEvents ==
  /\ rt.pc = "check"
  /\ rt.locked
  /\ rt.vec.len0 = 0
  /\ calls' = calls \o NoEventCalls(rt.nframes, Len(instances))
  /\ rt' = [rt EXCEPT !.pc = "ret"]
  /\ UNCHANGED <<regVars, queueVars, evlog, prod, workVars, own>>

\* process, line 221: evt = vec.buf[vecn] + n, as a slot of the ring.
EventSlot(vec, vecn, n) == IF vecn = 0 THEN vec.start + n ELSE n

\* A slip in the validity check: an event at the offset already reached is
\* rejected too.
BadFragmentPos_Strict(fragpos, usedframes, nframes) ==
  fragpos <= usedframes \/ fragpos >= nframes

\* process, line 234: the validity check on the fragment offset.
BadFragmentPos(fragpos, usedframes, nframes) ==
  fragpos < usedframes \/ fragpos >= nframes

\* A slip in the target test: the broadcast value -1 is forgotten.
EventTargets_NoBroadcast(inst, m) == inst = m

\* process, line 250: whether the event goes to the instance at position m.
EventTargets(inst, m) == inst = -1 \/ inst = m

\* A slip in the instance loop: the event is applied before the instance is
\* run up to the event's offset.
RECURSIVE InstanceLoop_EventFirst(_, _, _, _, _, _)
InstanceLoop_EventFirst(m, ninst, usedframes, doframes, inst, k) ==
  IF m >= ninst THEN <<>>
  ELSE (IF inst = -1 \/ inst = m THEN <<DoEventCall(m, k)>> ELSE <<>>)
       \o <<RunCall(m, usedframes, doframes)>>
       \o InstanceLoop_EventFirst(m + 1, ninst, usedframes, doframes, inst, k)

\* process, lines 244-253: for every instance, run up to the event, then
\* do_event if the event is for it.  k is the event's number in this call.
RECURSIVE InstanceLoop(_, _, _, _, _, _)
InstanceLoop(m, ninst, usedframes, doframes, inst, k) ==
  IF m >= ninst THEN <<>>
  ELSE <<RunCall(m, usedframes, doframes)>>
       \o (IF EventTargets(inst, m) THEN <<DoEventCall(m, k)>> ELSE <<>>)
       \o InstanceLoop(m + 1, ninst, usedframes, doframes, inst, k)

\* process, lines 219-256: one iteration of the while loop.
ProcessEvent ==
  /\ rt.pc = "loop"
  /\ rt.n < rt.num
  /\ LET slot    == EventSlot(rt.vec, rt.vecn, rt.n)
         evt     == eq_buf[slot]
         fragpos == evt.frag
         n1      == rt.n + 1
         switch  == n1 = rt.num /\ rt.vecn = 0
         n2      == IF switch THEN 0 ELSE n1
         vecn2   == IF switch THEN 1 ELSE rt.vecn
         num2    == IF switch THEN rt.vec.len1 ELSE rt.num
         bad     == BadFragmentPos(fragpos, rt.usedframes, rt.nframes)
         doframes == fragpos - rt.usedframes
         k       == Len(evlog) + 1
         made    == IF bad THEN <<>>
                    ELSE InstanceLoop(0, Len(instances), rt.usedframes, doframes,
                                      evt.inst, k)
         used2   == IF bad THEN rt.usedframes ELSE rt.usedframes + doframes
     IN  /\ eq_buf' = [eq_buf EXCEPT ![slot].reads = @ + 1]
         /\ calls' = calls \o made
         /\ evlog' = Append(evlog, [slot |-> slot, st |-> evt.st, frag |-> fragpos,
                                    inst |-> evt.inst, reads |-> evt.reads + 1,
                                    skipped |-> bad,
                                    usedBefore |-> rt.usedframes, usedAfter |-> used2,
                                    ncalls |-> Len(made)])
         /\ rt' = [rt EXCEPT !.n = n2, !.vecn = vecn2, !.num = num2,
                             !.usedframes = used2,
                             !.pc = IF n2 < num2 THEN "loop" ELSE "advance"]
  /\ UNCHANGED <<regVars, eq_w, eq_r, prod, workVars, own>>

\* A slip in the commit of the read: the second span is left out.
AdvanceCount_FirstSpan(vec) == vec.len0

\* process, line 259: the number of slots the read cursor advances by.
AdvanceCount(vec) == vec.len0 + vec.len1

\* A slip in the final run: the frames already rendered are not subtracted.
RestCalls_WholeBuffer(usedframes, nf, ninst) ==
  [p \in 1 .. ninst |-> RunCall(p - 1, usedframes, nf)]

\* process, lines 262-264: run the rest of the frames on every instance.
RestCalls(usedframes, nf, ninst) ==
  [p \in 1 .. ninst |-> RunCall(p - 1, usedframes, nf - usedframes)]

\* process, lines 258-264.  A slot the read cursor has passed holds no queued
\* event any more: it becomes FreeSlot.
ProcessAdvance ==
  /\ rt.pc = "advance"
  /\ LET cnt == AdvanceCount(rt.vec)
     IN  /\ eq_r' = increment_ptr(eq_r, cnt)
         /\ eq_buf' = [s \in Slots |->
                         IF s \in PassedSlots(eq_r, cnt) THEN FreeSlot ELSE eq_buf[s]]
         /\ rt' = [rt EXCEPT !.pc = "ret",
                             !.passed = [k \in 1 .. cnt |-> eq_buf[(eq_r + k - 1) % QSize]]]
  /\ calls' = calls \o RestCalls(rt.usedframes, rt.nframes, Len(instances))
  /\ UNCHANGED <<regVars, eq_w, evlog, prod, workVars, own>>

\* A slip in the return: the lock is not released.
ProcessReturn_KeepsLock ==
  /\ rt.pc = "ret"
  /\ rt' = [rt EXCEPT !.pc = "idle"]
  /\ UNCHANGED <<regVars, queueVars, calls, evlog, prod, workVars, own>>

\* process, lines 279-280: return; lm's destructor releases the lock if held.
ProcessReturn ==
  /\ rt.pc = "ret"
  /\ rt' = [rt EXCEPT !.pc = "idle"]
  /\ instance_lock' = IF rt.locked THEN "free" ELSE instance_lock
  /\ UNCHANGED <<instances, queueVars, calls, evlog, prod, workVars, own>>

\* ------------------- Engine::push_command_event / push_control_event ----
\* before, beforeW, beforeR: the queue when the call read it.  pushed: the
\* event the call queued.  ret: the value the last call returned.
ProdIdle == [pc |-> "idle", kind |-> "none", returned |-> FALSE, ret |-> FALSE,
             vec |-> [start |-> 0, len0 |-> 0, len1 |-> 0],
             before |-> <<>>, beforeW |-> 0, beforeR |-> 0]

\* lines 289 and 318: _event_queue->get_write_vector (&vec)
PushGetWriteVector(kind) ==
  /\ prod.pc = "idle"
  /\ prod' = [ProdIdle EXCEPT !.pc = "check", !.kind = kind,
                              !.vec = get_write_vector(eq_w, eq_r),
                              !.before = QueueSeq(eq_buf, eq_w, eq_r),
                              !.beforeW = eq_w, !.beforeR = eq_r]
  /\ UNCHANGED <<regVars, queueVars, rtVars, workVars, own>>

\* push_command_event, line 289
PushCommandEvent == PushGetWriteVector("command")

\* push_control_event, line 318
PushControlEvent == PushGetWriteVector("control")

\* A slip in the push: the full test is missing.
QueueFull_NoTest(vec) == FALSE

\* lines 291 and 320: the queue is full when the first write span is empty.
QueueFull(vec) == vec.len0 = 0

\* lines 291-296 and 320-325: return false
PushFull ==
  /\ prod.pc = "check"
  /\ QueueFull(prod.vec)
  /\ prod' = [prod EXCEPT !.pc = "idle", !.returned = TRUE, !.ret = FALSE]
  /\ UNCHANGED <<regVars, queueVars, rtVars, workVars, own>>

\* lines 298-299 and 327-328: *evt = createEvent(), into slot vec.buf[0]; F are
\* the fragment offsets the event generator may stamp.
PushCreate(F) ==
  /\ prod.pc = "check"
  /\ ~QueueFull(prod.vec)
  /\ \E f \in F :
       eq_buf' = [eq_buf EXCEPT ![prod.vec.start] =
                    [st |-> "created", frag |-> f, inst |-> -1, reads |-> 0]]
  /\ prod' = [prod EXCEPT !.pc = "fields"]
  /\ UNCHANGED <<regVars, eq_w, eq_r, rtVars, workVars, own>>

\* lines 301-303 and 330-333: Type, Command or Control and Value, Instance;
\* I are the instance arguments of the call.
PushFields(I) ==
  /\ prod.pc = "fields"
  /\ \E i \in I :
       eq_buf' = [eq_buf EXCEPT ![prod.vec.start].st = "full",
                                ![prod.vec.start].inst = i]
  /\ prod' = [prod EXCEPT !.pc = "incr"]
  /\ UNCHANGED <<regVars, eq_w, eq_r, rtVars, workVars, own>>

\* lines 305-307 and 335-337: increment_write_ptr (1); return true
PushIncrement ==
  /\ prod.pc = "incr"
  /\ eq_w' = increment_ptr(eq_w, 1)
  /\ prod' = [prod EXCEPT !.pc = "idle", !.returned = TRUE, !.ret = TRUE]
  /\ UNCHANGED <<regVars, eq_buf, eq_r, rtVars, workVars, own>>

\* ------------------------------------------------------------ initial ----
\* Engine::add_loop, line 125: a Looper as constructed.
Looper(index, chans) == [index |-> index, chans |-> chans]

\* An EventNonRT: kind is the dynamic type (for a ConfigLoopEvent, its type
\* Add or Remove), channels and index the ConfigLoopEvent's fields.
AdminEvent(kind, channels, index) == [kind |-> kind, channels |-> channels, index |-> index]
NoAdminEvent == AdminEvent("none", 0, 0)

\* mainloop's locals and those of the add_loop / remove_loop call it makes.
\* event: the event read from the queue, as read.  chans, index: the argument
\* of add_loop, remove_loop.  n: add_loop's n.  ret: what add_loop or
\* remove_loop returned.  signaled: a signal reached the condition wait.
\* before: the registry when the event was read.  ready: _ok when the event
\* was read.  stopped: a test of is_ok() in mainloop has returned false.
WkIdle == [pc |-> "outer", event |-> NoAdminEvent, chans |-> 0, index |-> 0,
           n |-> 0, ret |-> FALSE, signaled |-> FALSE, before |-> <<>>,
           ready |-> TRUE, stopped |-> FALSE]

\* push_nonrt_event's locals.  wrote: RingBuffer::write stored the pointer.
ApIdle == [pc |-> "idle", returned |-> FALSE, wrote |-> FALSE]

\* The engine's owned objects.  osc, event_queue, event_generator: the
\* pointers, "null", "live" (pointing to the object made by initialize) or
\* "deleted" (not null, the object deleted).  deletes: the delete expressions
\* evaluated on each so far.  initialized: the outcome of initialize, "no"
\* before it is called.  pc, by: the position of a cleanup() call and who made
\* it.  cleaned: the cleanup() calls that returned.  once: _ok and the
\* pointers as the first cleanup() call left them.  crashed: a delete of a
\* deleted object ended the process.
NoDeletes == [osc |-> 0, event_queue |-> 0, event_generator |-> 0]
NoSnapshot == [taken |-> FALSE, ok |-> FALSE, osc |-> "null",
               event_queue |-> "null", event_generator |-> "null"]

\* Engine::Engine, lines 38-42
OwnConstructed ==
  [pc |-> "idle", by |-> "none", initialized |-> "no", cleaned |-> 0,
   destroyed |-> FALSE, crashed |-> FALSE,
   osc |-> "null", event_queue |-> "null", event_generator |-> "null",
   deletes |-> NoDeletes, once |-> NoSnapshot]

\* initialize, lines 62-68, all objects made
OwnReady ==
  [OwnConstructed EXCEPT !.initialized = "ok", !.osc = "live",
                         !.event_queue = "live", !.event_generator = "live"]

\* After Engine::Engine and a successful initialize: the engine is ready, no
\* lock is held, mainloop is about to start and no other call is under way.
InitThreads ==
  /\ ok = TRUE
  /\ instance_lock = "free"
  /\ rt = RtIdle
  /\ calls = <<>>
  /\ evlog = <<>>
  /\ prod = ProdIdle
  /\ wk = WkIdle
  /\ el_lock = "free"
  /\ notes = <<>>
  /\ osc = <<>>
  /\ qt = "idle"
  /\ ap = ApIdle
  /\ own = OwnReady

\* initialize, line 65: a new, empty RingBuffer<EventNonRT *>
InitRest ==
  /\ InitThreads
  /\ nq = <<>>

\* initialize, line 63: a new, empty RingBuffer<Event>
EmptyEventQueue ==
  /\ eq_buf = [s \in Slots |-> FreeSlot]
  /\ eq_w = 0
  /\ eq_r = 0

Init ==
  /\ InitRest
  /\ instances = <<>>
  /\ EmptyEventQueue

\* ----------------------------------------------------- integer types ----
\* Conversion to int and to unsigned int, and size_t's subtraction.
ToInt(v) ==
  LET m == v % UIntModulus
  IN  IF m >= UIntModulus \div 2 THEN m - UIntModulus ELSE m
ToUInt(v) == v % UIntModulus
SizeMinus(a, b) == (a - b) % SizeModulus

\* --------------------------------------------------- Engine::mainloop ----
\* line 384: while (is_ok())
WorkerOuter ==
  /\ wk.pc = "outer"
  /\ wk' = [wk EXCEPT !.pc = IF ok THEN "inner" ELSE "exited",
                      !.stopped = @ \/ ~ok]
  /\ UNCHANGED <<ok, nq, el_lock, notes, osc, qt, ap, regVars, queueVars, rtVars, prod, own>>

\* A slip in the inner loop: it reads on without testing is_ok().
WorkerInner_NoTest ==
  /\ wk.pc = "inner"
  /\ wk' = [wk EXCEPT !.pc = "read"]
  /\ UNCHANGED <<ok, nq, el_lock, notes, osc, qt, ap, regVars, queueVars, rtVars, prod, own>>

\* line 387: is_ok() && ..., the left operand
WorkerInner ==
  /\ wk.pc = "inner"
  /\ wk' = [wk EXCEPT !.pc = IF ok THEN "read" ELSE "break",
                      !.stopped = @ \/ ~ok]
  /\ UNCHANGED <<ok, nq, el_lock, notes, osc, qt, ap, regVars, queueVars, rtVars, prod, own>>

\* line 387: _nonrt_event_queue->read(&event, 1) == 1, an event is there
WorkerRead ==
  /\ wk.pc = "read"
  /\ nq # <<>>
  /\ wk' = [wk EXCEPT !.pc = "dispatch", !.event = Head(nq), !.before = instances,
                      !.ret = FALSE, !.chans = 0, !.index = 0, !.n = 0,
                      !.ready = ok]
  /\ nq' = Tail(nq)
  /\ notes' = <<>>
  /\ osc' = <<>>
  /\ UNCHANGED <<ok, el_lock, qt, ap, regVars, queueVars, rtVars, prod, own>>

\* line 387: read returns 0, the queue is empty
WorkerReadNone ==
  /\ wk.pc = "read"
  /\ nq = <<>>
  /\ wk' = [wk EXCEPT !.pc = "break"]
  /\ UNCHANGED <<ok, nq, el_lock, notes, osc, qt, ap, regVars, queueVars, rtVars, prod, own>>

\* lines 389-397 and 416-423: the completions of the control front end
OscCompletion(kind) ==
  CASE kind = "GetParam"       -> "finish_get_event"
    [] kind = "ConfigUpdate"   -> "finish_update_event"
    [] kind = "Ping"           -> "send_pingack"
    [] kind = "RegisterConfig" -> "finish_register_event"

WorkerOscEvent ==
  /\ wk.pc = "dispatch"
  /\ wk.event.kind \in {"GetParam", "ConfigUpdate", "Ping", "RegisterConfig"}
  /\ osc' = Append(osc, OscCompletion(wk.event.kind))
  /\ wk' = [wk EXCEPT !.pc = "delete"]
  /\ UNCHANGED <<ok, nq, el_lock, notes, qt, ap, regVars, queueVars, rtVars, prod, own>>

\* A slip in the Add branch: a request for 0 channels is passed on as it is.
AddChannels_NoDefault(channels) == channels

\* lines 402-404: the channel count add_loop is called with
AddChannels(channels) == IF channels = 0 THEN DefChannelCnt ELSE channels

\* lines 400-406: ConfigLoopEvent::Add, up to the call of add_loop
WorkerConfigAdd ==
  /\ wk.pc = "dispatch"
  /\ wk.event.kind = "Add"
  /\ wk' = [wk EXCEPT !.pc = "add_lock", !.chans = AddChannels(wk.event.channels)]
  /\ UNCHANGED <<ok, nq, el_lock, notes, osc, qt, ap, regVars, queueVars, rtVars, prod, own>>

\* A slip in the Remove branch: -1 is resolved to the size, one past the last.
RemoveIndex_Size(index, size) == IF index = -1 THEN ToInt(size) ELSE index

\* lines 410-412: cl_event->index (an int) after the test for -1
RemoveIndex(index, size) ==
  IF index = -1 THEN ToInt(SizeMinus(size, 1)) ELSE index

\* lines 408-413: ConfigLoopEvent::Remove, up to the call of remove_loop,
\* whose parameter is an unsigned int
WorkerConfigRemove ==
  /\ wk.pc = "dispatch"
  /\ wk.event.kind = "Remove"
  /\ wk' = [wk EXCEPT !.pc = "rm_lock",
                      !.index = ToUInt(RemoveIndex(wk.event.index, Len(instances)))]
  /\ UNCHANGED <<ok, nq, el_lock, notes, osc, qt, ap, regVars, queueVars, rtVars, prod, own>>

\* line 425: delete event
WorkerDelete ==
  /\ wk.pc = "delete"
  /\ wk' = [wk EXCEPT !.pc = "inner"]
  /\ UNCHANGED <<ok, nq, el_lock, notes, osc, qt, ap, regVars, queueVars, rtVars, prod, own>>

\* line 429: if (!is_ok()) break
WorkerBreak ==
  /\ wk.pc = "break"
  /\ wk' = [wk EXCEPT !.pc = IF ok THEN "sleep_lock" ELSE "exited",
                      !.stopped = @ \/ ~ok]
  /\ UNCHANGED <<ok, nq, el_lock, notes, osc, qt, ap, regVars, queueVars, rtVars, prod, own>>

\* line 433: LockMonitor mon(_event_loop_lock)
WorkerSleepLock ==
  /\ wk.pc = "sleep_lock"
  /\ el_lock = "free"
  /\ el_lock' = "worker"
  /\ wk' = [wk EXCEPT !.pc = "timedwait"]
  /\ UNCHANGED <<ok, nq, notes, osc, qt, ap, regVars, queueVars, rtVars, prod, own>>

\* line 437: pthread_cond_timedwait releases the mutex and waits
WorkerWait ==
  /\ wk.pc = "timedwait"
  /\ el_lock' = "free"
  /\ wk' = [wk EXCEPT !.pc = "waiting", !.signaled = FALSE]
  /\ UNCHANGED <<ok, nq, notes, osc, qt, ap, regVars, queueVars, rtVars, prod, own>>

\* line 437: the wait ends on a signal, once the mutex can be taken again
WorkerSignaled ==
  /\ wk.pc = "waiting"
  /\ wk.signaled
  /\ el_lock = "free"
  /\ el_lock' = "worker"
  /\ wk' = [wk EXCEPT !.pc = "woken", !.signaled = FALSE]
  /\ UNCHANGED <<ok, nq, notes, osc, qt, ap, regVars, queueVars, rtVars, prod, own>>

\* A slip in the wait: it has no timeout (a plain pthread_cond_wait).
WorkerTimeout_NoTimeout == FALSE /\ UNCHANGED vars

\* line 437: the wait ends because the 5 seconds have passed
WorkerTimeout ==
  /\ wk.pc = "waiting"
  /\ ~wk.signaled
  /\ el_lock = "free"
  /\ el_lock' = "worker"
  /\ wk' = [wk EXCEPT !.pc = "woken"]
  /\ UNCHANGED <<ok, nq, notes, osc, qt, ap, regVars, queueVars, rtVars, prod, own>>

\* line 438: the end of mon's scope
WorkerSleepUnlock ==
  /\ wk.pc = "woken"
  /\ el_lock' = "free"
  /\ wk' = [wk EXCEPT !.pc = "outer"]
  /\ UNCHANGED <<ok, nq, notes, osc, qt, ap, regVars, queueVars, rtVars, prod, own>>


\* --------------------------------------------------- Engine::add_loop ---
\* line 121: LockMonitor lm (_instance_lock), a blocking lock
AddLoopLock ==
  /\ wk.pc = "add_lock"
  /\ instance_lock = "free"
  /\ instance_lock' = "worker"
  /\ wk' = [wk EXCEPT !.pc = "add_body"]
  /\ UNCHANGED <<instances, ok, nq, el_lock, notes, osc, qt, ap, queueVars, rtVars, prod, own>>

\* lines 125-132: the Looper is constructed and its setup fails: it is
\* deleted, add_loop returns false and lm releases the lock
AddLoopFail ==
  /\ wk.pc = "add_body"
  /\ instance_lock' = "free"
  /\ wk' = [wk EXCEPT !.pc = "delete", !.n = Len(instances), !.ret = FALSE]
  /\ UNCHANGED <<instances, ok, nq, el_lock, notes, osc, qt, ap, queueVars, rtVars, prod, own>>

\* A slip in the constructor call: the index counts from one.
NewLoopIndex_FromOne(size) == ToUInt(size + 1)

\* line 125: (unsigned int) _instances.size(), the index of the new Looper
NewLoopIndex(size) == ToUInt(size)

\* lines 125-134: the Looper is constructed with index _instances.size(), its
\* setup succeeds and it is appended.  (The model lets the setup succeed only
\* below MaxInst loops.)
AddLoopPush ==
  /\ wk.pc = "add_body"
  /\ Len(instances) < MaxInst
  /\ instances' = Append(instances, Looper(NewLoopIndex(Len(instances)), wk.chans))
  /\ wk' = [wk EXCEPT !.pc = "add_unlock", !.n = Len(instances)]
  /\ UNCHANGED <<instance_lock, ok, nq, el_lock, notes, osc, qt, ap, queueVars, rtVars, prod, own>>

\* line 135: the end of lm's scope
AddLoopUnlock ==
  /\ wk.pc = "add_unlock"
  /\ instance_lock' = "free"
  /\ wk' = [wk EXCEPT !.pc = "add_emit"]
  /\ UNCHANGED <<instances, ok, nq, el_lock, notes, osc, qt, ap, queueVars, rtVars, prod, own>>

\* A notification, with whether the emitting thread holds _instance_lock.
Note(kind, n) == [kind |-> kind, n |-> n, locked |-> instance_lock = "worker"]

\* lines 137-139: LoopAdded (n); return true
AddLoopEmit ==
  /\ wk.pc = "add_emit"
  /\ notes' = Append(notes, Note("LoopAdded", wk.n))
  /\ wk' = [wk EXCEPT !.pc = "delete", !.ret = TRUE]
  /\ UNCHANGED <<regVars, ok, nq, el_lock, osc, qt, ap, queueVars, rtVars, prod, own>>

\* ------------------------------------------------ Engine::remove_loop ---
\* line 146: LockMonitor lm (_instance_lock)
RemoveLoopLock ==
  /\ wk.pc = "rm_lock"
  /\ instance_lock = "free"
  /\ instance_lock' = "worker"
  /\ wk' = [wk EXCEPT !.pc = "rm_body"]
  /\ UNCHANGED <<instances, ok, nq, el_lock, notes, osc, qt, ap, queueVars, rtVars, prod, own>>

\* line 148: index < _instances.size(), both unsigned
RemoveInBounds(index, size) == index < size

\* lines 150-154: erase the element at position index
EraseAt(seq, index) == SubSeq(seq, 1, index) \o SubSeq(seq, index + 2, Len(seq))

\* lines 148-159: erase, delete, LoopRemoved (), return true
RemoveLoopErase ==
  /\ wk.pc = "rm_body"
  /\ RemoveInBounds(wk.index, Len(instances))
  /\ instances' = EraseAt(instances, wk.index)
  /\ notes' = Append(notes, Note("LoopRemoved", 0))
  /\ wk' = [wk EXCEPT !.pc = "rm_unlock", !.ret = TRUE]
  /\ UNCHANGED <<instance_lock, ok, nq, el_lock, osc, qt, ap, queueVars, rtVars, prod, own>>

\* line 162: return false
RemoveLoopOutOfBounds ==
  /\ wk.pc = "rm_body"
  /\ ~RemoveInBounds(wk.index, Len(instances))
  /\ wk' = [wk EXCEPT !.pc = "rm_unlock", !.ret = FALSE]
  /\ UNCHANGED <<regVars, ok, nq, el_lock, notes, osc, qt, ap, queueVars, rtVars, prod, own>>

\* line 163: lm's destructor on return
RemoveLoopUnlock ==
  /\ wk.pc = "rm_unlock"
  /\ instance_lock' = "free"
  /\ wk' = [wk EXCEPT !.pc = "delete"]
  /\ UNCHANGED <<instances, ok, nq, el_lock, notes, osc, qt, ap, queueVars, rtVars, prod, own>>

\* ------------------------------------------------------- Engine::quit ---
\* pthread_cond_signal: a thread waiting on _event_cond is woken; with no
\* waiter the signal has no effect.
CondSignal(w) == IF w.pc = "waiting" THEN [w EXCEPT !.signaled = TRUE] ELSE w

\* line 108: _ok = false
QuitClearOk ==
  /\ qt = "idle"
  /\ ok' = FALSE
  /\ qt' = "lock"
  /\ UNCHANGED <<nq, wk, el_lock, notes, osc, ap, regVars, queueVars, rtVars, prod, own>>

\* line 110: LockMonitor mon(_event_loop_lock)
QuitLock ==
  /\ qt = "lock"
  /\ el_lock = "free"
  /\ el_lock' = "quit"
  /\ qt' = "signal"
  /\ UNCHANGED <<ok, nq, wk, notes, osc, ap, regVars, queueVars, rtVars, prod, own>>

\* line 111: pthread_cond_signal (&_event_cond)
QuitSignal ==
  /\ qt = "signal"
  /\ wk' = CondSignal(wk)
  /\ qt' = "unlock"
  /\ UNCHANGED <<ok, nq, el_lock, notes, osc, ap, regVars, queueVars, rtVars, prod, own>>

\* line 112: mon's destructor on return
QuitUnlock ==
  /\ qt = "unlock"
  /\ el_lock' = "free"
  /\ qt' = "done"
  /\ UNCHANGED <<ok, nq, wk, notes, osc, ap, regVars, queueVars, rtVars, prod, own>>

\* ------------------------------------------- Engine::push_nonrt_event ---
\* RingBuffer<T>::write (&event, 1): stores the pointer if there is room
\* (QSize - 1 pointers fit) and returns the number stored.
NonRTRoom(q) == Len(q) < QSize - 1

\* line 360: _nonrt_event_queue->write(&event, 1), its result not looked at;
\* E are the events a caller may hand over.
NonRTWrite(E) ==
  /\ ap.pc = "idle"
  /\ \E e \in E : nq' = IF NonRTRoom(nq) THEN Append(nq, e) ELSE nq
  /\ ap' = [ap EXCEPT !.pc = "lock", !.returned = FALSE, !.wrote = NonRTRoom(nq)]
  /\ UNCHANGED <<ok, wk, el_lock, notes, osc, qt, regVars, queueVars, rtVars, prod, own>>

\* line 362: LockMonitor mon(_event_loop_lock)
NonRTLock ==
  /\ ap.pc = "lock"
  /\ el_lock = "free"
  /\ el_lock' = "pusher"
  /\ ap' = [ap EXCEPT !.pc = "signal"]
  /\ UNCHANGED <<ok, nq, wk, notes, osc, qt, regVars, queueVars, rtVars, prod, own>>

\* line 363: pthread_cond_signal (&_event_cond)
NonRTSignal ==
  /\ ap.pc = "signal"
  /\ wk' = CondSignal(wk)
  /\ ap' = [ap EXCEPT !.pc = "unlock"]
  /\ UNCHANGED <<ok, nq, el_lock, notes, osc, qt, regVars, queueVars, rtVars, prod, own>>

\* lines 365-366: return true, mon's destructor
NonRTUnlock ==
  /\ ap.pc = "unlock"
  /\ el_lock' = "free"
  /\ ap' = [ap EXCEPT !.pc = "idle", !.returned = TRUE]
  /\ UNCHANGED <<ok, nq, wk, notes, osc, qt, regVars, queueVars, rtVars, prod, own>>

\* ------------------------------------------------ Engine::initialize ---
\* initialize, lines 50-77, by its outcome: "no_driver" (line 58, the driver
\* cannot be initialized: nothing is made), "no_osc" (line 71, the objects are
\* made but the control front end is not ok) or "ok" (line 74, _ok = true).
Initialize(outcome) ==
  /\ own.pc = "idle"
  /\ own.initialized = "no"
  /\ own.by = "none"
  /\ own' = IF outcome = "no_driver"
              THEN [own EXCEPT !.initialized = outcome]
              ELSE [own EXCEPT !.initialized = outcome, !.event_generator = "live",
                               !.event_queue = "live", !.osc = "live"]
  /\ ok' = IF outcome = "ok" THEN TRUE ELSE ok
  /\ UNCHANGED <<regVars, queueVars, rtVars, prod, nq, wk, el_lock, notes, osc, qt, ap>>

\* --------------------------------------------------- Engine::cleanup ----
\* line 81: cleanup() called by the engine's owner
CleanupCall ==
  /\ own.pc = "idle"
  /\ own.by = "none"
  /\ own' = [own EXCEPT !.pc = "osc", !.by = "cleanup"]
  /\ UNCHANGED <<ok, regVars, queueVars, rtVars, prod, nq, wk, el_lock, notes, osc, qt, ap>>

\* lines 100-103: Engine::~Engine calls cleanup()
DestructorCall ==
  /\ own.pc = "idle"
  /\ ~own.destroyed
  /\ own' = [own EXCEPT !.pc = "osc", !.by = "destructor", !.destroyed = TRUE]
  /\ UNCHANGED <<ok, regVars, queueVars, rtVars, prod, nq, wk, el_lock, notes, osc, qt, ap>>

\* if (p) is taken for every pointer that is not null, deleted ones included.
NotNull(p) == p # "null"

\* lines 83-85: if (_osc) delete _osc; the pointer is left as it is.  The
\* delete of an object already deleted is undefined: the call may go on or the
\* process may end there.
CleanupOsc ==
  /\ own.pc = "osc"
  /\ \/ /\ ~NotNull(own.osc)
        /\ own' = [own EXCEPT !.pc = "queue"]
     \/ /\ own.osc = "live"
        /\ own' = [own EXCEPT !.pc = "queue", !.osc = "deleted", !.deletes.osc = @ + 1]
     \/ /\ own.osc = "deleted"
        /\ \E crash \in BOOLEAN :
             own' = [own EXCEPT !.pc = IF crash THEN "crashed" ELSE "queue",
                                !.crashed = crash, !.deletes.osc = @ + 1]
  /\ UNCHANGED <<ok, regVars, queueVars, rtVars, prod, nq, wk, el_lock, notes, osc, qt, ap>>

\* lines 87-90: if (_event_queue) { delete _event_queue; _event_queue = 0; }
CleanupEventQueue ==
  /\ own.pc = "queue"
  /\ own' = IF NotNull(own.event_queue)
              THEN [own EXCEPT !.pc = "gen", !.event_queue = "null",
                               !.deletes.event_queue = @ + 1]
              ELSE [own EXCEPT !.pc = "gen"]
  /\ UNCHANGED <<ok, regVars, queueVars, rtVars, prod, nq, wk, el_lock, notes, osc, qt, ap>>

\* lines 91-94: if (_event_generator) { delete ...; _event_generator = 0; }
CleanupEventGenerator ==
  /\ own.pc = "gen"
  /\ own' = IF NotNull(own.event_generator)
              THEN [own EXCEPT !.pc = "ok", !.event_generator = "null",
                               !.deletes.event_generator = @ + 1]
              ELSE [own EXCEPT !.pc = "ok"]
  /\ UNCHANGED <<ok, regVars, queueVars, rtVars, prod, nq, wk, el_lock, notes, osc, qt, ap>>

\* _ok and the pointers, as a cleanup() call leaves them.
Snapshot(o, k) == [taken |-> TRUE, ok |-> k, osc |-> o.osc,
                   event_queue |-> o.event_queue,
                   event_generator |-> o.event_generator]

\* lines 96-98: _ok = false; return
CleanupClearOk ==
  /\ own.pc = "ok"
  /\ ok' = FALSE
  /\ own' = [own EXCEPT !.pc = "idle", !.cleaned = @ + 1,
                        !.once = IF own.once.taken THEN @ ELSE Snapshot(own, FALSE)]
  /\ UNCHANGED <<regVars, queueVars, rtVars, prod, nq, wk, el_lock, notes, osc, qt, ap>>

CleanupStep ==
  \/ CleanupCall
  \/ DestructorCall
  \/ CleanupOsc
  \/ CleanupEventQueue
  \/ CleanupEventGenerator
  \/ CleanupClearOk

\* ------------------------------------------- the engine's life cycle ----
\* Engine::Engine, lines 36-48: not ready, no object made yet.
InitConstructed ==
  /\ ok = FALSE
  /\ own = OwnConstructed
  /\ instances = <<>>
  /\ instance_lock = "free"
  /\ EmptyEventQueue
  /\ rt = RtIdle
  /\ calls = <<>>
  /\ evlog = <<>>
  /\ prod = ProdIdle
  /\ nq = <<>>
  /\ wk = WkIdle
  /\ el_lock = "free"
  /\ notes = <<>>
  /\ osc = <<>>
  /\ qt = "idle"
  /\ ap = ApIdle

\* The engine is initialized and no cleanup() has been called: the control
\* front end is there to push events.
InUse == own.initialized = "ok" /\ own.pc = "idle" /\ own.by = "none"

\* The owner initializes the engine (or not), the control front end pushes
\* events while the engine is in use, then the owner calls cleanup() (or not)
\* and destroys the engine.
NextCleanup ==
  \/ \E outcome \in {"no_driver", "no_osc", "ok"} : Initialize(outcome)
  \/ CleanupStep
  \/ InUse /\ PushCommandEvent
  \/ InUse /\ PushControlEvent
  \/ InUse /\ PushFull
  \/ InUse /\ PushCreate({0})
  \/ InUse /\ PushFields({-1, 0})
  \/ InUse /\ PushIncrement

SpecCleanup == InitConstructed /\ [][NextCleanup]_vars

\* C13: cleanup() is idempotent: every owned object (control front end, RT
\* event queue, event generator) is deleted at most once however often
\* cleanup() runs, no call ends the process, and a second call leaves _ok and
\* the pointers as the first left them.
C13_CleanupIdempotent ==
  /\ own.deletes.osc <= 1
  /\ own.deletes.event_queue <= 1
  /\ own.deletes.event_generator <= 1
  /\ ~own.crashed
  /\ own.cleaned >= 1 => own.once.taken
  /\ (own.pc = "idle" /\ own.cleaned = 2) => own.once = Snapshot(own, ok)

\* ------------------------------------------- the dispatch loop alone ----
\* A registry of n loops, as n add_loop calls leave it.
Registry(n) == [p \in 1 .. n |-> Looper(p - 1, DefChannelCnt)]

Events == { FullEvent(f, i) : f \in FragVals, i \in InstVals }

\* The sequences over S of length up to n.
SeqsUpTo(S, n) == UNION { [1 .. k -> S] : k \in 0 .. n }

\* The RT queue holding the events q from read cursor r on, free slots
\* elsewhere.
EventQueueHolds(r, q) ==
  /\ eq_r = r
  /\ eq_w = (r + Len(q)) % QSize
  /\ eq_buf = [s \in Slots |->
                 LET k == (s - r + QSize) % QSize
                 IN  IF k < Len(q) THEN q[k + 1] ELSE FreeSlot]

\* The RT queue as pushes and earlier process calls can leave it: any read
\* cursor, any number of queued events.
InitDispatch ==
  /\ InitRest
  /\ instances \in { Registry(n) : n \in 0 .. MaxInst }
  /\ \E r \in Slots, q \in SeqsUpTo(Events, QSize - 1) : EventQueueHolds(r, q)

NextDispatch ==
  \/ \E nf \in FrameCnts : ProcessCall(nf)
  \/ ProcessGetReadVector
  \/ ProcessEventsBegin
  \/ ProcessNoEvents
  \/ ProcessEvent
  \/ ProcessAdvance
  \/ ProcessReturn

SpecDispatch == InitDispatch /\ [][NextDispatch]_vars

\* --------------------------------------------- properties of process ----
Positions == 0 .. (Len(instances) - 1)

\* The run calls made on the instance at position p, in order.
RunsOn(p) == SelectSeq(calls, LAMBDA c : c.op = "run" /\ c.pos = p)

RECURSIVE SumCounts(_)
SumCounts(cs) == IF cs = <<>> THEN 0 ELSE Head(cs).count + SumCounts(Tail(cs))

\* The frames the instance at p was run for before the j-th call.
RunBefore(p, j) ==
  SumCounts(SelectSeq(SubSeq(calls, 1, j - 1), LAMBDA c : c.op = "run" /\ c.pos = p))

\* A process call that got the lock and has made all its calls on the loops.
CycleDone == rt.pc = "ret" /\ rt.locked

Contiguous(runs) ==
  /\ \A j \in 1 .. Len(runs) : runs[j].count >= 0
  /\ Len(runs) > 0 => runs[1].start = 0
  /\ \A j \in 1 .. (Len(runs) - 1) : runs[j + 1].start = runs[j].start + runs[j].count

\* C1: in a process call that holds the lock, the run calls on every instance
\* partition [0, nframes): they start at 0, each starts where the one before
\* ended, and at the end they sum to nframes; with no pending event there is
\* exactly one run(0, nframes) per instance and no do_event.
C1_RunsPartitionBuffer ==
  CycleDone =>
    /\ \A j \in 1 .. Len(calls) : calls[j].pos \in Positions
    /\ \A p \in Positions :
         LET runs == RunsOn(p)
         IN  /\ Contiguous(runs)
             /\ Len(runs) >= 1
             /\ runs[Len(runs)].start + runs[Len(runs)].count = rt.nframes
             /\ SumCounts(runs) = rt.nframes
    /\ (rt.vec.len0 + rt.vec.len1 = 0) =>
         /\ \A p \in Positions : RunsOn(p) = <<RunCall(p, 0, rt.nframes)>>
         /\ Len(calls) = Len(instances)

\* A finished call that split the buffer of two instances at one event and
\* rejected another.
C1_Witness ==
  /\ CycleDone
  /\ Len(instances) = 2
  /\ Len(RunsOn(1)) = 2
  /\ RunsOn(1)[1].count > 0
  /\ \E j \in 1 .. Len(evlog) : evlog[j].skipped

\* C2: an event is applied to an instance after the instance was run for
\* exactly the event's fragment offset, and events are read and applied in
\* queue order, the first span of the read vector before the second.
C2_AppliedAtOffsetInOrder ==
  CycleDone =>
  /\ \A j \in 1 .. Len(calls) :
       calls[j].op = "do_event" =>
         RunBefore(calls[j].pos, j) = evlog[calls[j].ev].frag
  /\ \A j1, j2 \in 1 .. Len(calls) :
       (j1 < j2 /\ calls[j1].op = "do_event" /\ calls[j2].op = "do_event"
          /\ calls[j1].pos = calls[j2].pos) => calls[j1].ev < calls[j2].ev
  /\ \A k \in 1 .. Len(evlog) : evlog[k].slot = (rt.vec.start + k - 1) % QSize

\* Two events of a wrapped read vector, both applied to the same instance
\* after the start of the buffer.
C2_Witness ==
  /\ CycleDone
  /\ rt.vec.len1 > 0
  /\ \E j1, j2 \in 1 .. Len(calls) :
       /\ calls[j1].op = "do_event" /\ calls[j2].op = "do_event"
       /\ calls[j1].pos = calls[j2].pos
       /\ calls[j1].ev = 1 /\ calls[j2].ev = 2
       /\ evlog[2].frag >= evlog[1].frag /\ evlog[1].frag > 0

\* The do_event calls of event k on the instance at position p.
AppliedTo(k, p) ==
  Len(SelectSeq(calls, LAMBDA c : c.op = "do_event" /\ c.ev = k /\ c.pos = p))

\* C3: a valid event with target -1 is applied exactly once to every instance
\* of the registry, one with target k >= 0 exactly once to the instance at
\* position k and to no other, and one whose target is no position to none.
C3_TargetedDispatch ==
  CycleDone =>
  \A k \in 1 .. Len(evlog) :
    ~evlog[k].skipped =>
      \A p \in Positions :
        AppliedTo(k, p) = (IF evlog[k].inst = -1 \/ evlog[k].inst = p THEN 1 ELSE 0)

\* A broadcast event and an event for position 1 in one call, and an event
\* whose target is no position.
C3_Witness ==
  /\ CycleDone
  /\ Len(instances) = 2
  /\ Len(evlog) = 2
  /\ evlog[1].inst = -1 /\ ~evlog[1].skipped
  /\ evlog[2].inst = 1 /\ ~evlog[2].skipped

\* The offset of the last event applied before the k-th, 0 if there is none.
RECURSIVE LastApplied(_)
LastApplied(k) ==
  IF k = 0 THEN 0
  ELSE IF ~evlog[k].skipped THEN evlog[k].frag ELSE LastApplied(k - 1)

\* C4: an event is dropped if and only if its offset is >= nframes or below
\* the offset of the last event applied in this buffer; a dropped event
\* reaches no instance and leaves usedframes alone, an event at the offset of
\* the last applied one is applied, and dropped events are consumed too.
C4_DropPolicy ==
  CycleDone =>
  /\ \A k \in 1 .. Len(evlog) :
       LET e == evlog[k]
       IN  /\ e.usedBefore = LastApplied(k - 1)
           /\ e.skipped <=> (e.frag >= rt.nframes \/ e.frag < LastApplied(k - 1))
           /\ e.skipped =>
                /\ e.ncalls = 0
                /\ e.usedAfter = e.usedBefore
                /\ \A p \in Positions : AppliedTo(k, p) = 0
           /\ ~e.skipped =>
                /\ e.usedAfter = e.frag
                /\ e.ncalls >= Len(instances)
  /\ (rt.vec.len0 > 0) =>
       /\ Len(evlog) = rt.vec.len0 + rt.vec.len1
       /\ Len(rt.passed) = Len(evlog)
       /\ eq_r = (rt.vec.start + Len(evlog)) % QSize
       /\ \A k \in 1 .. Len(evlog) : eq_buf[evlog[k].slot] = FreeSlot

\* A call that applied an event and then dropped a stale one.
C4_Witness ==
  /\ CycleDone
  /\ Len(instances) > 0
  /\ Len(evlog) = 2
  /\ ~evlog[1].skipped
  /\ evlog[2].skipped /\ evlog[2].frag < evlog[1].frag

\* ------------------------------------------------- the producer alone ----
\* A few payloads: an offset in range and one out of range, a broadcast and a
\* single target.
PushFrags == { 0, MaxFrames }
PushInsts == { -1, 0 }

InitPush ==
  /\ InitDispatch
  /\ instances = <<>>

NextPush ==
  \/ PushCommandEvent
  \/ PushControlEvent
  \/ PushFull
  \/ PushCreate(PushFrags)
  \/ PushFields(PushInsts)
  \/ PushIncrement

SpecPush == InitPush /\ [][NextPush]_vars

\* The queue the returned push found had no free slot.
FoundNoFreeSlot == write_space(prod.beforeW, prod.beforeR) = 0

\* C5: a push that finds no free slot returns false and leaves the write
\* cursor, the read cursor and the queued events as they were; a push that
\* finds a free slot returns true and the queue is the old one with one
\* complete event after it.
C5_PushFullOrAppend ==
  (prod.pc = "idle" /\ prod.returned) =>
    LET now == QueueSeq(eq_buf, eq_w, eq_r)
    IN  IF FoundNoFreeSlot
          THEN /\ ~prod.ret
               /\ eq_w = prod.beforeW
               /\ eq_r = prod.beforeR
               /\ now = prod.before
          ELSE /\ prod.ret
               /\ eq_r = prod.beforeR
               /\ Len(now) = Len(prod.before) + 1
               /\ SubSeq(now, 1, Len(prod.before)) = prod.before
               /\ now[Len(now)].st = "full"

\* A push rejected by a full queue that holds events.
C5_Witness ==
  /\ prod.pc = "idle" /\ prod.returned /\ ~prod.ret
  /\ Len(prod.before) = QSize - 1
  /\ prod.beforeW < prod.beforeR

\* ---------------------------------- one producer and the RT thread ----
\* The producer and process interleave step by step; one loop is registered.
InitQueue ==
  /\ InitRest
  /\ instances = Registry(1)
  /\ EmptyEventQueue

NextQueue ==
  \/ PushCommandEvent
  \/ PushControlEvent
  \/ PushFull
  \/ PushCreate(PushFrags)
  \/ PushFields(PushInsts)
  \/ PushIncrement
  \/ ProcessCall(MaxFrames)
  \/ ProcessGetReadVector
  \/ ProcessEventsBegin
  \/ ProcessNoEvents
  \/ ProcessEvent
  \/ ProcessAdvance
  \/ ProcessReturn

SpecQueue == InitQueue /\ [][NextQueue]_vars

\* The slots holding queued events.
Queued == PassedSlots(eq_r, read_space(eq_w, eq_r))

\* C6: under every interleaving of one producer with process, a queued event
\* is complete, is read at most once, and is read exactly once, complete, by
\* the time the read cursor passes it; the read cursor advances by the size
\* of the read region process took at the start of the call, so an event
\* pushed later stays queued, unread.
C6_EachEventReadOnce ==
  /\ \A s \in Slots :
       /\ eq_buf[s].reads <= 1
       /\ s \in Queued => eq_buf[s].st = "full"
       /\ s \notin Queued => eq_buf[s].reads = 0
       /\ eq_buf[s].reads = 1 => rt.pc \in {"loop", "advance"}
  /\ rt.pc \in {"loop", "advance", "ret"} =>
       \A k \in 1 .. Len(evlog) :
         /\ evlog[k].st = "full"
         /\ evlog[k].reads = 1
         /\ evlog[k].slot = (rt.vec.start + k - 1) % QSize
  /\ \A k \in 1 .. Len(rt.passed) :
       rt.passed[k].st = "full" /\ rt.passed[k].reads = 1
  /\ (rt.pc = "ret" /\ rt.locked /\ rt.vec.len0 > 0) =>
       /\ Len(rt.passed) = rt.vec.len0 + rt.vec.len1
       /\ Len(evlog) = Len(rt.passed)
       /\ eq_r = (rt.vec.start + rt.vec.len0 + rt.vec.len1) % QSize

\* A call that read a wrapped region while the producer queued one more event,
\* which is still there.
C6_Witness ==
  /\ rt.pc = "ret" /\ rt.locked
  /\ rt.vec.len1 > 0
  /\ Len(rt.passed) = 2
  /\ read_space(eq_w, eq_r) = 1
  /\ prod.pc = "idle"

\* ------------------------------------------- the worker's dispatch ----
\* The admin events: add requests for 0 (the default), 1 and 2 channels,
\* remove requests for -1 (the last), -2, and every index up to MaxInst, and
\* the four kinds the control front end completes.
AdminEvents ==
  { AdminEvent("Add", c, 0) : c \in 0 .. 2 }
  \cup { AdminEvent("Remove", 0, i) : i \in (-2) .. MaxInst }
  \cup { AdminEvent(k, 0, 0) : k \in {"GetParam", "ConfigUpdate", "Ping", "RegisterConfig"} }

\* mainloop starts with any events queued and any number of loops registered.
InitAdmin ==
  /\ InitThreads
  /\ EmptyEventQueue
  /\ instances \in { Registry(n) : n \in 0 .. MaxInst }
  /\ nq \in SeqsUpTo(AdminEvents, QSize - 1)

WorkerStep ==
  \/ WorkerOuter
  \/ WorkerInner
  \/ WorkerRead
  \/ WorkerReadNone
  \/ WorkerDelete
  \/ WorkerBreak
  \/ WorkerSleepLock
  \/ WorkerWait
  \/ WorkerTimeout
  \/ WorkerSleepUnlock

RegistryStep ==
  \/ WorkerConfigAdd
  \/ WorkerConfigRemove
  \/ AddLoopLock
  \/ AddLoopFail
  \/ AddLoopPush
  \/ AddLoopUnlock
  \/ AddLoopEmit
  \/ RemoveLoopLock
  \/ RemoveLoopErase
  \/ RemoveLoopOutOfBounds
  \/ RemoveLoopUnlock

NextAdmin ==
  \/ WorkerStep
  \/ WorkerOscEvent
  \/ RegistryStep

SpecAdmin == InitAdmin /\ [][NextAdmin]_vars

\* The dispatch of the event in wk.event is over.
Dispatched(kind) == wk.pc = "delete" /\ wk.event.kind = kind

\* C9: a dispatched ConfigLoop(Add) leaves the registry as it was with one
\* Looper more at the end, constructed with the requested channel count, or
\* with 2 when 0 was requested, and one LoopAdded; or, if the setup failed,
\* as it was, with no notification.  Existing instances keep their positions
\* throughout.
C9_AddAppendsOne ==
  /\ wk.pc \in {"add_lock", "add_body", "add_unlock", "add_emit"} =>
       SubSeq(instances, 1, Len(wk.before)) = wk.before
  /\ Dispatched("Add") =>
       LET want == IF wk.event.channels = 0 THEN 2 ELSE wk.event.channels
       IN  IF wk.ret
             THEN /\ Len(instances) = Len(wk.before) + 1
                  /\ SubSeq(instances, 1, Len(wk.before)) = wk.before
                  /\ instances[Len(instances)].chans = want
                  /\ Len(notes) = 1 /\ notes[1].kind = "LoopAdded"
             ELSE /\ instances = wk.before
                  /\ notes = <<>>

\* An add request for 0 channels, dispatched on a registry of one loop.
C9_Witness ==
  /\ Dispatched("Add")
  /\ wk.event.channels = 0
  /\ wk.ret
  /\ Len(wk.before) = 1

\* seq without its element at position index (from 0).
Without(seq, index) ==
  [k \in 1 .. (Len(seq) - 1) |-> IF k <= index THEN seq[k] ELSE seq[k + 1]]

\* C10: a dispatched ConfigLoop(Remove) removes the instance at the resolved
\* position (the last for index -1) and emits one LoopRemoved if the resolved
\* index is a position of the registry; otherwise, index -1 on an empty
\* registry included, remove_loop returns false, the registry is unchanged and
\* nothing is emitted.
C10_RemoveResolved ==
  Dispatched("Remove") =>
    LET size     == Len(wk.before)
        resolved == IF wk.event.index = -1 THEN size - 1 ELSE wk.event.index
    IN  IF resolved \in 0 .. (size - 1)
          THEN /\ wk.ret
               /\ instances = Without(wk.before, resolved)
               /\ Len(notes) = 1 /\ notes[1].kind = "LoopRemoved"
          ELSE /\ ~wk.ret
               /\ instances = wk.before
               /\ notes = <<>>

\* Remove(-1) dispatched on a registry of two loops.
C10_Witness ==
  /\ Dispatched("Remove")
  /\ wk.event.index = -1
  /\ Len(wk.before) = 2
  /\ wk.ret

\* Remove(-1) dispatched on an empty registry.
RemoveLastOfNone ==
  /\ Dispatched("Remove")
  /\ wk.event.index = -1
  /\ wk.before = <<>>

\* C11: a successful add_loop constructs the new instance with index equal to
\* the registry size before the add, which is the new size minus one, whatever
\* was removed before, and LoopAdded carries that index; the first add on an
\* empty registry notifies index 0.
C11_AddIndexIsSizeBefore ==
  (Dispatched("Add") /\ wk.ret) =>
    /\ instances[Len(instances)].index = Len(wk.before)
    /\ instances[Len(instances)].index = Len(instances) - 1
    /\ Len(notes) = 1
    /\ notes[1].kind = "LoopAdded"
    /\ notes[1].n = Len(wk.before)
    /\ wk.before = <<>> => notes[1].n = 0

\* An add dispatched after the loop at position 0 of two was removed: the loop
\* left carries index 1, the index the new one gets.
C11_Witness ==
  /\ Dispatched("Add")
  /\ wk.ret
  /\ Len(wk.before) = 1
  /\ wk.before[1].index = 1
  /\ instances[2].index = 1
  /\ notes = <<[kind |-> "LoopAdded", n |-> 1, locked |-> FALSE]>>

\* C18: after any sequence of add_loop and remove_loop calls the instance at
\* registry position p carries the index p it was constructed with, so no two
\* instances carry the same index.
C18_IndexIsPosition ==
  /\ \A p \in 1 .. Len(instances) : instances[p].index = p - 1
  /\ \A p, q \in 1 .. Len(instances) :
       instances[p].index = instances[q].index => p = q

\* C12: every LoopAdded and LoopRemoved is emitted after the registry was
\* changed and while the emitting thread does not hold _instance_lock.
C12_NotifiedOutsideLock ==
  \A k \in 1 .. Len(notes) :
    /\ ~notes[k].locked
    /\ instances # wk.before

\* --------------------------------- the worker, a pusher and quit() ----
\* The wake-up protocol does not read the events: pings stand for all.
QuitEvents == { AdminEvent("Ping", 0, 0) }

QuitStep ==
  \/ QuitClearOk
  \/ QuitLock
  \/ QuitSignal
  \/ QuitUnlock

NonRTStep(E) ==
  \/ NonRTWrite(E)
  \/ NonRTLock
  \/ NonRTSignal
  \/ NonRTUnlock

NextQuit ==
  \/ WorkerStep
  \/ WorkerSignaled
  \/ WorkerOscEvent
  \/ NonRTStep(QuitEvents)
  \/ QuitStep

SpecQuit == Init /\ [][NextQuit]_vars

\* C8: once quit() has returned, the worker is not blocked in the condition
\* wait without a signal to wake it: it never has to sit out the timeout.
C8_QuitWakesWorker ==
  ~(qt = "done" /\ wk.pc = "waiting" /\ ~wk.signaled)

\* Fair scheduling of the three threads of SpecQuit: the worker keeps taking
\* steps (lock attempts and the end of the timed wait included), and a quit()
\* or push_nonrt_event call that was begun is completed.
QuitFairness ==
  /\ SF_vars(WorkerStep \/ WorkerSignaled \/ WorkerOscEvent)
  /\ SF_vars(NonRTLock \/ NonRTSignal \/ NonRTUnlock)
  /\ SF_vars(QuitLock \/ QuitSignal \/ QuitUnlock)

SpecQuitFair == SpecQuit /\ QuitFairness

\* C16: once quit() has been called, mainloop eventually returns, whether the
\* signal or the timeout ends its wait; and once a test of is_ok() in mainloop
\* has returned false, mainloop reads and dispatches no further event and
\* stays returned, whatever is still queued.
C16_MainloopTerminates ==
  /\ (qt # "idle") ~> (wk.pc = "exited")
  /\ [](wk.stopped => wk.pc \in {"break", "exited"})
  /\ [][(wk.stopped \/ wk.pc = "exited") => (nq' = nq \/ Len(nq') > Len(nq))]_vars
  /\ [][wk.pc = "exited" => wk'.pc = "exited"]_vars

\* mainloop has returned after quit() with an event still in the queue.
C16_Witness ==
  /\ wk.pc = "exited"
  /\ qt = "done"
  /\ nq # <<>>
  /\ ap.pc = "idle"

\* ------------------------------- quit() against the two loops ----
\* The engine is ready, one loop is registered, events are pending in both
\* queues; the RT thread calls process and the worker runs mainloop while
\* quit() is called.
InitReady ==
  /\ InitThreads
  /\ instances = Registry(1)
  /\ nq \in SeqsUpTo(QuitEvents, QSize - 1)
  /\ \E q \in SeqsUpTo({ FullEvent(f, -1) : f \in PushFrags }, QSize - 1) :
       EventQueueHolds(0, q)

NextReady ==
  \/ NextDispatch
  \/ WorkerStep
  \/ WorkerSignaled
  \/ WorkerOscEvent
  \/ QuitStep

SpecReady == InitReady /\ [][NextReady]_vars

\* C14: _ok is false once quit() has cleared it, and a process call made
\* while _ok is false reads no event from the RT queue, applies none and runs
\* no instance, and mainloop reads no admin event while _ok is false.
C14_ReadyGatesLoops ==
  /\ qt # "idle" => ~ok
  /\ (rt.pc # "idle" /\ ~rt.ready) =>
       /\ evlog = <<>>
       /\ calls = <<>>
       /\ rt.pc \notin {"loop", "advance"}
  /\ wk.pc = "dispatch" => wk.ready

\* ------------------------------ the worker and a pusher, for ever ----
\* The engine stays ready: callers keep handing admin events to
\* push_nonrt_event while the worker runs mainloop.  The events are told apart
\* by their index field, which stands for the pointer handed over.
LiveIds == 1 .. (QSize - 1)
LiveEvents == { AdminEvent("Ping", 0, id) : id \in LiveIds }

NextLive ==
  \/ WorkerStep
  \/ WorkerSignaled
  \/ WorkerOscEvent
  \/ NonRTStep(LiveEvents)

\* Fair scheduling: the worker thread keeps taking steps, its lock attempts
\* and the end of its timed wait included, and a push_nonrt_event call that
\* was begun is completed.  No new call has to be made.
LiveFairness ==
  /\ SF_vars(WorkerStep \/ WorkerSignaled \/ WorkerOscEvent)
  /\ SF_vars(NonRTLock \/ NonRTSignal \/ NonRTUnlock)

SpecLive == Init /\ [][NextLive]_vars /\ LiveFairness

InAdminQueue(id) == \E k \in 1 .. Len(nq) : nq[k].index = id
Dispatching(id) == wk.pc = "dispatch" /\ wk.event.index = id

\* C15: while the engine stays ready, every admin event that push_nonrt_event
\* put in the queue is eventually read and dispatched by mainloop, in every
\* interleaving of the push with mainloop, the one where the signal comes
\* before the wait and is lost included.
C15_AdminEventDispatched ==
  \A id \in LiveIds : InAdminQueue(id) ~> Dispatching(id)

\* The push has returned, its signal found no waiter, and the worker waits
\* with the event in the queue: only the timeout can wake it.
C15_Witness ==
  /\ wk.pc = "waiting"
  /\ ~wk.signaled
  /\ nq # <<>>
  /\ ap.pc = "idle" /\ ap.returned /\ ap.wrote

\* C20: push_nonrt_event returns true only if the event's pointer was stored
\* in the admin queue, a full queue included: no call that found the queue
\* full returns true.
C20_TrueOnlyIfWritten ==
  (ap.pc = "idle" /\ ap.returned) => ap.wrote

\* ------------------------ the worker's registry calls and process ----
\* The worker drains queued add and remove requests while the RT thread calls
\* process on a queue that holds events.
ConfigEvents == { AdminEvent("Add", 0, 0), AdminEvent("Remove", 0, -1) }
PendingEvents == { FullEvent(f, -1) : f \in PushFrags }

InitRegistry ==
  /\ InitThreads
  /\ instances \in { Registry(n) : n \in 0 .. MaxInst }
  /\ nq \in SeqsUpTo(ConfigEvents, QSize - 1)
  /\ \E q \in SeqsUpTo(PendingEvents, QSize - 1) : EventQueueHolds(0, q)

ProcessStep ==
  \/ \E nf \in FrameCnts : ProcessCall(nf)
  \/ ProcessGetReadVector
  \/ ProcessAlreadyLocked
  \/ ProcessEventsBegin
  \/ ProcessNoEvents
  \/ ProcessEvent
  \/ ProcessAdvance
  \/ ProcessReturn

NextRegistry ==
  \/ WorkerStep
  \/ RegistryStep
  \/ ProcessStep

SpecRegistry == InitRegistry /\ [][NextRegistry]_vars

\* C7: a process call made while another thread holds the registry lock is
\* never made to wait (each of its steps can be taken whoever holds the
\* lock), calls run and do_event on no instance, and calls updateFragmentTime
\* exactly once, as a call that gets the lock does.
C7_ContendedCycleSkips ==
  /\ ENABLED ProcessStep
  /\ rt.contended => (~rt.locked /\ calls = <<>> /\ evlog = <<>>)
  /\ rt.pc \in {"check", "loop", "advance", "ret"} => rt.fragUpdates = 1
  /\ (rt.pc = "idle" /\ rt.cycles = 1) => rt.fragUpdates = 1

\* A process call that found the lock taken by add_loop with a loop registered
\* and events pending, about to return.
C7_Witness ==
  /\ rt.pc = "ret"
  /\ rt.contended
  /\ wk.pc \in {"add_body", "add_unlock"}
  /\ Len(instances) > 0
  /\ rt.vec.len0 > 0

\* The RT thread is in the part of process that goes through _instances.
RtInRegistry == rt.locked /\ rt.pc \in {"check", "loop", "advance"}

\* The worker is in the locked section of add_loop or remove_loop.
WorkerInRegistry == wk.pc \in {"add_body", "add_unlock", "rm_body", "rm_unlock"}

\* The worker is at the lock of add_loop or remove_loop.
WorkerAtLock == wk.pc \in {"add_lock", "rm_lock"}

\* C17: the RT thread is never going through the registry in process while
\* the worker is in the locked section of add_loop or remove_loop; the lock is
\* held by the RT thread exactly during a process call that got it, on every
\* path to the return, so that a worker waiting for the lock can take it once
\* process has returned.
C17_RegistryMutex ==
  /\ ~(RtInRegistry /\ WorkerInRegistry)
  /\ rt.pc \in {"loop", "advance"} => rt.locked
  /\ (instance_lock = "rt") <=> (rt.locked /\ rt.pc # "idle")
  /\ (instance_lock = "worker") <=> WorkerInRegistry
  /\ (rt.pc = "idle" /\ WorkerAtLock) => ENABLED (AddLoopLock \/ RemoveLoopLock)

\* The worker waits at remove_loop's lock while process applies events.
C17_Witness ==
  /\ wk.pc = "rm_lock"
  /\ rt.pc = "advance"
  /\ ~(ENABLED RemoveLoopLock)
  /\ Len(instances) > 0
  /\ Len(evlog) > 0

\* The fragment offset and the target of each event of a sequence.
Payload(q) == [k \in 1 .. Len(q) |-> [frag |-> q[k].frag, inst |-> q[k].inst]]

\* C19: a process call that does not get the registry lock consumes nothing:
\* from the call to the next call the read cursor, the write cursor and the
\* slots stay as they were, no event is read and no instance is run; the call
\* after it, if it gets the lock, reads the same events, in the same order and
\* with the same fragment offsets.
C19_ContendedConsumesNothing ==
  /\ rt.contended =>
       /\ QueueSeq(eq_buf, eq_w, eq_r) = rt.before
       /\ \A k \in 1 .. Len(rt.before) :
            rt.before[k].st = "full" /\ rt.before[k].reads = 0
       /\ rt.pc \in {"check", "ret"} => rt.vec.start = eq_r
       /\ calls = <<>>
       /\ evlog = <<>>
       /\ rt.passed = <<>>
  /\ (rt.prevContended /\ CycleDone) => Payload(evlog) = Payload(rt.before)

\* A call that got the lock after a contended one and read the two events
\* that were pending then.
C19_Witness ==
  /\ rt.prevContended
  /\ CycleDone
  /\ Len(evlog) = 2
  /\ Len(instances) > 0

\* ------------------------------------------------- the whole engine ----
Next ==
  \/ ProcessStep
  \/ PushCommandEvent
  \/ PushControlEvent
  \/ PushFull
  \/ PushCreate(FragVals)
  \/ PushFields(InstVals)
  \/ PushIncrement
  \/ WorkerStep
  \/ WorkerSignaled
  \/ WorkerOscEvent
  \/ RegistryStep
  \/ NonRTStep(AdminEvents)
  \/ QuitStep

Spec == Init /\ [][Next]_vars

====
